---- MODULE Spec2Model ----
(***************************************************************************)
(* Model of the profile identity manager (profile.service.js and the      *)
(* pre-save hooks of profile.model.js) and of the engagement methods of    *)
(* the post / question models together with the services that call them.  *)
(*                                                                         *)
(* The persistent store is MongoDB behind Mongoose.  One store round trip  *)
(* (findOne, find, updateMany, findByIdAndUpdate, insert, updateOne,       *)
(* deleteOne) is atomic; a service call is a sequence of round trips.      *)
(* The sequential specifications run every call as one step, the           *)
(* concurrent ones run every round trip as one step.                       *)
(***************************************************************************)
EXTENDS Integers, Sequences, FiniteSets, TLC

(***************************************************************************)
(* Bounds.                                                                 *)
(***************************************************************************)
\* ObjectIds that Profile.create can hand out (an id is never reused).
MaxProfiles == 2

ProfileIds == 1..MaxProfiles
\* Accounts (userId) and the profile names requests may carry.
Users == {"u1", "u2"}
Names == {"ana", "bob", "cy"}
\* The account the concurrent requests work on.
RaceUsers == {"u1"}
\* The `excludeProfileId` of a call that passes none (undefined).
NoId == 0

\* The requests that may be in progress at the same time; each makes one call.
Requests == {"r1", "r2"}
\* The profiles that react to the content item.
Reactors == {"p1", "p2"}
\* Service calls on the content item a behaviour may make: the item's
\* version key __v grows with every change of a membership list.
MaxItemCalls == 5

VARIABLES
    profiles,   \* the Profile collection: id -> document (or Absent)
    nextId,     \* the next ObjectId Profile.create will generate
    last,       \* the profile call that made the latest step, and how it ended
    item,       \* the stored content item (a Post or a Question document)
    itemCalls,  \* engagement calls made so far
    elast,      \* the engagement call that made the latest step
    pproc,      \* concurrent requests to the profile service: where each is
    eproc,      \* concurrent requests to the post / question service
    users       \* the User collection: account id -> document (or NoUser)

profileVars == <<profiles, nextId, last>>
itemVars == <<item, itemCalls, elast>>
raceVars == <<pproc, eproc>>
vars == <<profiles, nextId, last, item, itemCalls, elast, pproc, eproc, users>>

\* The slot of an id that is not (or no longer) in the collection.
Absent == [exists |-> FALSE, userId |-> "none", profileName |-> "none", isDefault |-> FALSE,
           profileType |-> "none", status |-> "none"]

\* The slot of an account id no User document has.
NoUser == [exists |-> FALSE, name |-> "none", email |-> "none", username |-> "none"]

\* The value an optional request field has when the request omits it.
Unset == "unset"
\* updateBody.profileName / updateBody.isDefault as a PATCH body may carry them.
PatchNames == Names \cup {Unset}
PatchFlags == {"true", "false", Unset}

\* How a call ends: it returns ("ok"), or throws ApiError 400 / 404, or lets
\* through the Error of the name hook ("ERROR"), the duplicate-key error of
\* the unique index, the DocumentNotFoundError or the VersionError of save().
Results == {"ok", "BAD_REQUEST", "NOT_FOUND", "FORBIDDEN", "ERROR", "DUPLICATE_KEY",
            "DOC_NOT_FOUND", "VERSION_ERROR", "VALIDATION_ERROR"}

\* last.userId: the account the call worked on; last.wasDefault: the profile
\* the call names was default when the call began; last.multi: the account
\* then had several default profiles; last.asked: profileBody.isDefault of a
\* createProfile call; last.profileId: the profile the call names.
NoCall == [op |-> "none", userId |-> "none", res |-> "none", profileId |-> NoId,
           wasDefault |-> FALSE, multi |-> FALSE, asked |-> "unset"]

Call(op, userId, id, res, db) ==
    [op |-> op, userId |-> userId, res |-> res, asked |-> "unset", profileId |-> id,
     wasDefault |-> id \in ProfileIds /\ db[id].exists /\ db[id].isDefault,
     multi |-> \E i, j \in ProfileIds :
                  /\ i # j
                  /\ db[i].exists /\ db[i].userId = userId /\ db[i].isDefault
                  /\ db[j].exists /\ db[j].userId = userId /\ db[j].isDefault]

(***************************************************************************)
(* Queries of the Profile collection.                                      *)
(***************************************************************************)
\* Profile.find({ userId })
ProfilesOf(db, userId) == {i \in ProfileIds : db[i].exists /\ db[i].userId = userId}

\* The profiles of an account that are marked default.
DefaultsOf(db, userId) == {i \in ProfilesOf(db, userId) : db[i].isDefault}

\* (the sort of getProfilesByUserId without its isDefault key)
Before_CreatedOnly(db, i, j) == i < j

\* .sort({ isDefault: -1, createdAt: 1 }): does document i come before
\* document j?  createdAt is the time of the insert; ids are handed out in
\* the order of the inserts.
Before(db, i, j) ==
    \/ db[i].isDefault /\ ~db[j].isDefault
    \/ db[i].isDefault = db[j].isDefault /\ i < j

RECURSIVE Sorted(_, _)
\* The documents of S in the order of the sort.
Sorted(db, S) ==
    IF S = {} THEN <<>>
    ELSE LET first == CHOOSE i \in S : \A j \in S \ {i} : Before(db, i, j)
         IN  <<first>> \o Sorted(db, S \ {first})

\* getProfilesByUserId(userId)
getProfilesByUserId(db, userId) == Sorted(db, ProfilesOf(db, userId))

\* (the name check without the userId filter)
isProfileNameTaken_AnyUser(db, profileName, userId, excludeProfileId) ==
    \E i \in ProfileIds :
        db[i].exists /\ db[i].profileName = profileName /\ i # excludeProfileId

\* (the name check without the $ne filter on _id)
isProfileNameTaken_IncludeSelf(db, profileName, userId, excludeProfileId) ==
    \E i \in ProfilesOf(db, userId) : db[i].profileName = profileName

\* isProfileNameTaken(profileName, userId, excludeProfileId)
isProfileNameTaken(db, profileName, userId, excludeProfileId) ==
    \E i \in ProfilesOf(db, userId) :
        db[i].profileName = profileName /\ i # excludeProfileId

\* (a hook that never runs its updateMany)
PreSaveDefault_Off(db, id, userId, isDefaultModified, isDefault) == db

\* (an updateMany that matches nothing)
UnsetOthers_None(db, userId, id) == db

\* Profile.updateMany({ userId, _id: { $ne: id } }, { $set: { isDefault: false } })
UnsetOthers(db, userId, id) ==
    [i \in ProfileIds |->
        IF db[i].exists /\ db[i].userId = userId /\ i # id
        THEN [db[i] EXCEPT !.isDefault = FALSE]
        ELSE db[i]]

\* (the collection without the unique index)
UniqueIndexAllows_NoIndex(db, id, userId, profileName) == TRUE

\* The unique index { userId: 1, profileName: 1 }: may document `id` of
\* account userId carry profileName without a duplicate key?
UniqueIndexAllows(db, id, userId, profileName) ==
    ~ \E j \in ProfilesOf(db, userId) : j # id /\ db[j].profileName = profileName

(***************************************************************************)
(* The pre('save') hooks of the profile schema, in the order they are      *)
(* registered.  isModified(path) is true of every path given to the        *)
(* constructor of a new document, and of a path of a loaded document whose *)
(* value was changed.                                                      *)
(***************************************************************************)
\* pre('save') #1: a save that sets isDefault unsets every other profile of
\* the account.  Its updateMany is written before the document itself is.
PreSaveDefault(db, id, userId, isDefaultModified, isDefault) ==
    IF isDefaultModified /\ isDefault THEN UnsetOthers(db, userId, id) ELSE db

\* pre('save') #2: does the hook throw 'Profile name already exists'?
PreSaveNameThrows(db, id, userId, nameModified, profileName) ==
    nameModified /\ isProfileNameTaken(db, profileName, userId, id)

\* How the save of a document ends once pre('save') #1 has run: the name
\* hook, then the write, which the unique index may reject.
SaveResult(db, id, userId, nameModified, profileName) ==
    IF PreSaveNameThrows(db, id, userId, nameModified, profileName) THEN "ERROR"
    ELSE IF ~UniqueIndexAllows(db, id, userId, profileName) THEN "DUPLICATE_KEY"
    ELSE "ok"

\* The document as the store holds it after insert / updateOne.
\* profileType and status have the defaults of the schema.
Doc(userId, profileName, isDefault) ==
    [exists |-> TRUE, userId |-> userId, profileName |-> profileName, isDefault |-> isDefault,
     profileType |-> "public", status |-> "public"]

(***************************************************************************)
(* The service calls, each run to completion in one step.                  *)
(***************************************************************************)
\* (the flag of a new profile taken from the request alone)
CreatedIsDefault_AsAsked(isFirstProfile, isDefault) == isDefault = "true"

\* isDefault: isFirstProfile || profileBody.isDefault || false
CreatedIsDefault(isFirstProfile, isDefault) == isFirstProfile \/ isDefault = "true"

\* (a name validator that accepts every name)
ValidProfileName_Any(profileName) == TRUE

\* profileSchema.profileName.validate: at least 2 characters.  Validation
\* is the first pre('save') step of a document, before the two hooks.
ValidProfileName(profileName) == Len(profileName) >= 2

\* A profileBody; profileType and status default to public (the Joi schema
\* of the route and the Mongoose schema agree).
ProfileBody(userId, profileName, isDefault, profileType, status) ==
    [userId |-> userId, profileName |-> profileName, isDefault |-> isDefault,
     profileType |-> profileType, status |-> status]

\* createProfile(profileBody) on collection db, the new document getting
\* _id id: the collection it leaves, how it ends, and whether a document
\* was built (an _id used).
createProfile(db, id, profileBody) ==
    LET userId == profileBody.userId
        profileName == profileBody.profileName
    IN  IF isProfileNameTaken(db, profileName, userId, NoId)
        THEN [db |-> db, res |-> "BAD_REQUEST", used |-> FALSE]
        ELSE IF ~ValidProfileName(profileName)
        THEN [db |-> db, res |-> "VALIDATION_ERROR", used |-> FALSE]
        ELSE LET isFirstProfile == ProfilesOf(db, userId) = {}
                 flag == CreatedIsDefault(isFirstProfile, profileBody.isDefault)
                 db1 == PreSaveDefault(db, id, userId, TRUE, flag)
                 res == SaveResult(db1, id, userId, TRUE, profileName)
             IN  [db |-> IF res = "ok"
                         THEN [db1 EXCEPT ![id] =
                                 [Doc(userId, profileName, flag) EXCEPT
                                     !.profileType = profileBody.profileType,
                                     !.status = profileBody.status]]
                         ELSE db1,
                  res |-> res, used |-> TRUE]

\* createProfile(profileBody)
CreateProfile(userId, profileName, isDefault) ==
    LET out == createProfile(profiles, nextId,
                             ProfileBody(userId, profileName, isDefault, "public", "public"))
    IN  /\ out.used => nextId <= MaxProfiles
        /\ profiles' = out.db
        /\ nextId' = IF out.used THEN nextId + 1 ELSE nextId
        /\ last' = [Call("create", userId, NoId, out.res, profiles)
                       EXCEPT !.asked = isDefault]
        /\ UNCHANGED <<itemVars, raceVars, users>>

\* updateProfileById(profileId, updateBody)
updateProfileById(db, id, name, flag) ==
    IF ~db[id].exists
    THEN [db |-> db, res |-> "NOT_FOUND", userId |-> "none"]
    ELSE LET profile == db[id]
             userId == profile.userId
         IN  IF name # Unset /\ isProfileNameTaken(db, name, userId, id)
             THEN [db |-> db, res |-> "BAD_REQUEST", userId |-> userId]
             ELSE LET newName == IF name = Unset THEN profile.profileName ELSE name
                      newFlag == IF flag = Unset THEN profile.isDefault ELSE flag = "true"
                      db1 == PreSaveDefault(db, id, userId,
                                            newFlag # profile.isDefault, newFlag)
                      res == SaveResult(db1, id, userId,
                                        newName # profile.profileName, newName)
                  IN  [db |-> IF res = "ok"
                              THEN [db1 EXCEPT ![id].profileName = newName,
                                               ![id].isDefault = newFlag]
                              ELSE db1,
                       res |-> res, userId |-> userId]

\* A call of updateProfileById on the store
UpdateProfileById(id, name, flag) ==
    LET out == updateProfileById(profiles, id, name, flag)
    IN  /\ UNCHANGED <<nextId, itemVars, raceVars, users>>
        /\ profiles' = out.db
        /\ last' = Call("update", out.userId, id, out.res, profiles)

\* (setDefaultProfile that looks the profile up by _id alone)
SetDefaultProfile_AnyAccount(userId, id) ==
    /\ UNCHANGED <<nextId, itemVars, raceVars, users>>
    /\ IF ~profiles[id].exists
       THEN /\ last' = Call("setDefault", userId, id, "NOT_FOUND", profiles)
            /\ UNCHANGED profiles
       ELSE /\ profiles' = [UnsetOthers(profiles, userId, id) EXCEPT ![id].isDefault = TRUE]
            /\ last' = Call("setDefault", userId, id, "ok", profiles)

\* setDefaultProfile(userId, profileId)
SetDefaultProfile(userId, id) ==
    /\ UNCHANGED <<nextId, itemVars, raceVars, users>>
    /\ IF ~(profiles[id].exists /\ profiles[id].userId = userId)
       THEN /\ last' = Call("setDefault", userId, id, "NOT_FOUND", profiles)
            /\ UNCHANGED profiles
       ELSE /\ profiles' = [UnsetOthers(profiles, userId, id) EXCEPT ![id].isDefault = TRUE]
            /\ last' = Call("setDefault", userId, id, "ok", profiles)

\* (getDefaultProfile without the isDefault filter)
GetDefaultProfile_AnyProfile(userId, found) ==
    /\ UNCHANGED <<profiles, nextId, itemVars, raceVars, users>>
    /\ IF ProfilesOf(profiles, userId) = {} THEN found = NoId
       ELSE found \in ProfilesOf(profiles, userId)
    /\ last' = Call("getDefault", userId, found,
                    IF found = NoId THEN "NOT_FOUND" ELSE "ok", profiles)

\* getDefaultProfile(userId); `found` is the document findOne returns (null:
\* NoId, which the controller turns into 404)
GetDefaultProfile(userId, found) ==
    /\ UNCHANGED <<profiles, nextId, itemVars, raceVars, users>>
    /\ IF DefaultsOf(profiles, userId) = {} THEN found = NoId
       ELSE found \in DefaultsOf(profiles, userId)
    /\ last' = Call("getDefault", userId, found,
                    IF found = NoId THEN "NOT_FOUND" ELSE "ok", profiles)

\* getUserProfiles: profileService.getProfilesByUserId(req.user.id)
GetProfilesByUserId(userId) ==
    /\ UNCHANGED <<profiles, nextId, itemVars, raceVars, users>>
    /\ last' = Call("list", userId, NoId, "ok", profiles)

\* Profile.findOne({ userId: profile.userId, _id: { $ne: profileId } }) of
\* deleteProfileById: `other` is a document the query may return (it has no
\* sort: any other profile of the account), NoId when the query is not
\* made or finds nothing.
MayFindOther(db, id, other) ==
    IF db[id].exists /\ db[id].isDefault /\ ProfilesOf(db, db[id].userId) \ {id} # {}
    THEN other \in ProfilesOf(db, db[id].userId) \ {id}
    ELSE other = NoId

\* deleteProfileById(profileId)
deleteProfileById(db, id, other) ==
    IF ~db[id].exists
    THEN [db |-> db, res |-> "NOT_FOUND", userId |-> "none"]
    ELSE LET userId == db[id].userId
             db1 == IF other = NoId THEN db
                    ELSE LET db0 == PreSaveDefault(db, other, userId,
                                                   ~db[other].isDefault, TRUE)
                         IN  [db0 EXCEPT ![other].isDefault = TRUE]
         IN  [db |-> [db1 EXCEPT ![id] = Absent], res |-> "ok", userId |-> userId]

\* (deleteProfileById without the promotion of another profile)
DeleteProfileById_NoPromote(id, other) ==
    /\ UNCHANGED <<nextId, itemVars, raceVars, users>>
    /\ other = NoId
    /\ IF ~profiles[id].exists
       THEN /\ last' = Call("delete", "none", id, "NOT_FOUND", profiles)
            /\ UNCHANGED profiles
       ELSE /\ profiles' = [profiles EXCEPT ![id] = Absent]
            /\ last' = Call("delete", profiles[id].userId, id, "ok", profiles)

\* A call of deleteProfileById on the store
DeleteProfileById(id, other) ==
    LET out == deleteProfileById(profiles, id, other)
    IN  /\ UNCHANGED <<nextId, itemVars, raceVars, users>>
        /\ MayFindOther(profiles, id, other)
        /\ profiles' = out.db
        /\ last' = Call("delete", out.userId, id, out.res, profiles)

(***************************************************************************)
(* Account bootstrap (user.service.js).                                    *)
(***************************************************************************)
\* floor(Math.random() * 900000): any of 0 .. 899999; the least and the
\* greatest stand for the range.
RandomSamples == {0, 899999}

\* (a generator with a 5-digit suffix)
generateAnonymousProfileName_FiveDigits(random) == "Neswa" \o ToString(10000 + random)

\* generateAnonymousProfileName(): `Neswa${Math.floor(100000 + Math.random() * 900000)}`
generateAnonymousProfileName(random) == "Neswa" \o ToString(100000 + random)

\* The userBody objects createUser is called with: a usual one, one whose
\* name is too short for a profile name, one named like a generated
\* profile name (and with the username of the first), and one with the
\* email of the first.
UserBodies ==
    {[name |-> "ana", email |-> "a@x", username |-> "ana1"],
     [name |-> "b", email |-> "b@x", username |-> "bee"],
     [name |-> "Neswa100000", email |-> "n@x", username |-> "ana1"],
     [name |-> "cy", email |-> "a@x", username |-> "cy1"]}

\* User.isEmailTaken(email)
isEmailTaken(coll, email) == \E u \in Users : coll[u].exists /\ coll[u].email = email

\* User.isUsernameTaken(username)
isUsernameTaken(coll, username) ==
    \E u \in Users : coll[u].exists /\ coll[u].username = username

\* (a catch block that throws the error on)
Caught_Rethrow(res) == res

\* catch (error) { logger.error(...) } and, after it, return user: how
\* createUser ends when the try block ended with res
Caught(res) == "ok"

\* (a bootstrap whose second creation does not depend on the first)
SecondAttempted_Always(firstRes) == TRUE

\* Both creations are awaited in one try block: the second is reached only
\* when the first did not throw.
SecondAttempted(firstRes) == firstRes = "ok"

\* createUser(userBody); u is the _id User.create gives the account
CreateUser(u, userBody, random) ==
    /\ UNCHANGED <<itemVars, raceVars>>
    /\ IF isEmailTaken(users, userBody.email) \/ isUsernameTaken(users, userBody.username)
       THEN /\ last' = Call("createUser", "none", NoId, "BAD_REQUEST", profiles)
            /\ UNCHANGED <<profiles, nextId, users>>
       ELSE /\ ~users[u].exists
            /\ users' = [users EXCEPT ![u] =
                            [exists |-> TRUE, name |-> userBody.name,
                             email |-> userBody.email, username |-> userBody.username]]
            /\ LET first == createProfile(profiles, nextId,
                                ProfileBody(u, userBody.name, "true", "public", "public"))
                    id2 == IF first.used THEN nextId + 1 ELSE nextId
                    second == createProfile(first.db, id2,
                                ProfileBody(u, generateAnonymousProfileName(random),
                                            "false", "anonymous", "private"))
                    reached == SecondAttempted(first.res)
                    tried == IF reached THEN second.res ELSE first.res
               IN  /\ first.used => nextId <= MaxProfiles
                   /\ reached /\ second.used => id2 <= MaxProfiles
                   /\ profiles' = IF reached THEN second.db ELSE first.db
                   /\ nextId' = IF reached /\ second.used THEN id2 + 1 ELSE id2
                   /\ last' = Call("createUser", u, NoId, Caught(tried), profiles)

(***************************************************************************)
(* The handlers of profile.controller.js, which the routes run after       *)
(* auth(): req.user is an existing account.                                *)
(***************************************************************************)
\* auth(...): the caller is an account
Authenticated(caller) == users[caller].exists

\* (an ownership test that always passes)
Owns_Always(db, id, caller) == TRUE

\* profile.userId.toString() === req.user.id
Owns(db, id, caller) == db[id].userId = caller

\* (a count test that never refuses)
OnlyProfile_Never(db, caller) == FALSE

\* userProfiles.length === 1
OnlyProfile(db, caller) == Len(getProfilesByUserId(db, caller)) = 1

\* controller createProfile
ControllerCreateProfile(caller, profileName, isDefault) ==
    /\ Authenticated(caller)
    /\ CreateProfile(caller, profileName, isDefault)

\* controller getProfile
ControllerGetProfile(caller, id) ==
    /\ Authenticated(caller)
    /\ UNCHANGED <<profiles, nextId, itemVars, raceVars, users>>
    /\ last' = Call("getProfile", caller, id,
                    IF ~profiles[id].exists THEN "NOT_FOUND"
                    ELSE IF ~Owns(profiles, id, caller) THEN "FORBIDDEN"
                    ELSE "ok", profiles)

\* controller getUserProfiles
ControllerGetUserProfiles(caller) ==
    /\ Authenticated(caller)
    /\ GetProfilesByUserId(caller)

\* controller getDefaultProfile
ControllerGetDefaultProfile(caller, found) ==
    /\ Authenticated(caller)
    /\ GetDefaultProfile(caller, found)

\* controller updateProfile
ControllerUpdateProfile(caller, id, name, flag) ==
    LET out == IF ~profiles[id].exists
               THEN [db |-> profiles, res |-> "NOT_FOUND"]
               ELSE IF ~Owns(profiles, id, caller)
               THEN [db |-> profiles, res |-> "FORBIDDEN"]
               ELSE updateProfileById(profiles, id, name, flag)
    IN  /\ Authenticated(caller)
        /\ UNCHANGED <<nextId, itemVars, raceVars, users>>
        /\ profiles' = out.db
        /\ last' = Call("updateProfile", caller, id, out.res, profiles)

\* controller setDefaultProfile
ControllerSetDefaultProfile(caller, id) ==
    /\ Authenticated(caller)
    /\ SetDefaultProfile(caller, id)

\* controller deleteProfile
ControllerDeleteProfile(caller, id, other) ==
    LET refused == IF ~profiles[id].exists THEN "NOT_FOUND"
                   ELSE IF ~Owns(profiles, id, caller) THEN "FORBIDDEN"
                   ELSE IF OnlyProfile(profiles, caller) THEN "BAD_REQUEST"
                   ELSE "no"
        out == IF refused # "no"
               THEN [db |-> profiles, res |-> refused]
               ELSE deleteProfileById(profiles, id, other)
    IN  /\ Authenticated(caller)
        /\ UNCHANGED <<nextId, itemVars, raceVars, users>>
        /\ IF refused # "no" THEN other = NoId ELSE MayFindOther(profiles, id, other)
        /\ profiles' = out.db
        /\ last' = Call("deleteProfile", caller, id, out.res, profiles)

(***************************************************************************)
(* Concurrent requests.  Node runs one request until its next await; every *)
(* await below is one round trip to the store, so a request is a sequence  *)
(* of atomic store operations that interleave with those of the others.    *)
(***************************************************************************)
IdleProfileRequest ==
    [pc |-> "idle", op |-> "none", userId |-> "none", id |-> NoId, name |-> Unset,
     flag |-> FALSE, loaded |-> Absent, other |-> NoId, res |-> "none"]

Begin(r, op, userId, id, name) ==
    [IdleProfileRequest EXCEPT !.op = op, !.userId = userId, !.id = id, !.name = name]

\* The request has returned or thrown: its locals are gone.
Done(req, res) ==
    [IdleProfileRequest EXCEPT !.pc = "done", !.op = req.op, !.userId = req.userId,
                               !.id = req.id, !.res = res]

RaceFrame == UNCHANGED <<last, itemVars, eproc, users>>

\* The requests are interchangeable: the one that begins first is called r1.
MayBegin(r, proc) == proc[r].pc = "idle" /\ (r = "r2" => proc["r1"].pc # "idle")

\* createProfile: await isProfileNameTaken(...)
CreateCheckName(r, userId, profileName, isDefault) ==
    /\ MayBegin(r, pproc)
    /\ LET req == [Begin(r, "create", userId, NoId, profileName) EXCEPT !.flag = (isDefault = "true")]
       IN  pproc' = [pproc EXCEPT ![r] =
                IF isProfileNameTaken(profiles, profileName, userId, NoId)
                THEN Done(req, "BAD_REQUEST")
                ELSE [req EXCEPT !.pc = "createFind"]]
    /\ UNCHANGED <<profiles, nextId>> /\ RaceFrame

\* createProfile: await Profile.find({ userId }); the document is then built
\* (its _id generated) and Profile.create begins to save it.
CreateFind(r) ==
    /\ pproc[r].pc = "createFind"
    /\ nextId <= MaxProfiles
    /\ nextId' = nextId + 1
    /\ pproc' = [pproc EXCEPT ![r].pc = "createHookDefault", ![r].id = nextId,
                              ![r].flag = CreatedIsDefault(
                                              ProfilesOf(profiles, pproc[r].userId) = {},
                                              IF @ THEN "true" ELSE "false")]
    /\ UNCHANGED profiles /\ RaceFrame

\* Profile.create: pre('save') #1
CreateHookDefault(r) ==
    /\ pproc[r].pc = "createHookDefault"
    /\ profiles' = PreSaveDefault(profiles, pproc[r].id, pproc[r].userId, TRUE, pproc[r].flag)
    /\ pproc' = [pproc EXCEPT ![r].pc = "createHookName"]
    /\ UNCHANGED nextId /\ RaceFrame

\* Profile.create: pre('save') #2
CreateHookName(r) ==
    /\ pproc[r].pc = "createHookName"
    /\ pproc' = [pproc EXCEPT ![r] =
            IF PreSaveNameThrows(profiles, @.id, @.userId, TRUE, @.name)
            THEN Done(@, "ERROR")
            ELSE [@ EXCEPT !.pc = "createInsert"]]
    /\ UNCHANGED <<profiles, nextId>> /\ RaceFrame

\* Profile.create: the insert, which the unique index may reject
CreateInsert(r) ==
    /\ pproc[r].pc = "createInsert"
    /\ LET req == pproc[r]
           ok == UniqueIndexAllows(profiles, req.id, req.userId, req.name)
       IN  /\ profiles' = IF ok THEN [profiles EXCEPT ![req.id] = Doc(req.userId, req.name, req.flag)]
                           ELSE profiles
           /\ pproc' = [pproc EXCEPT ![r] = Done(req, IF ok THEN "ok" ELSE "DUPLICATE_KEY")]
    /\ UNCHANGED nextId /\ RaceFrame

\* updateProfileById: await getProfileById(profileId)
UpdateLoad(r, id, name, flag) ==
    /\ MayBegin(r, pproc)
    /\ LET req == Begin(r, "update", profiles[id].userId, id, name)
       IN  pproc' = [pproc EXCEPT ![r] =
                IF ~profiles[id].exists
                THEN Done(req, "NOT_FOUND")
                ELSE [req EXCEPT !.pc = "updateCheckName", !.loaded = profiles[id],
                                 !.flag = IF flag = Unset THEN profiles[id].isDefault
                                          ELSE flag = "true"]]
    /\ UNCHANGED <<profiles, nextId>> /\ RaceFrame

\* updateProfileById: await isProfileNameTaken(...), then Object.assign
UpdateCheckName(r) ==
    /\ pproc[r].pc = "updateCheckName"
    /\ pproc' = [pproc EXCEPT ![r] =
            IF @.name # Unset /\ isProfileNameTaken(profiles, @.name, @.userId, @.id)
            THEN Done(@, "BAD_REQUEST")
            ELSE [@ EXCEPT !.pc = "updateHookDefault",
                           !.name = IF @ = Unset THEN pproc[r].loaded.profileName ELSE @]]
    /\ UNCHANGED <<profiles, nextId>> /\ RaceFrame

\* profile.save(): pre('save') #1
UpdateHookDefault(r) ==
    /\ pproc[r].pc = "updateHookDefault"
    /\ LET req == pproc[r]
       IN  profiles' = PreSaveDefault(profiles, req.id, req.userId,
                                      req.flag # req.loaded.isDefault, req.flag)
    /\ pproc' = [pproc EXCEPT ![r].pc = "updateHookName"]
    /\ UNCHANGED nextId /\ RaceFrame

\* profile.save(): pre('save') #2
UpdateHookName(r) ==
    /\ pproc[r].pc = "updateHookName"
    /\ pproc' = [pproc EXCEPT ![r] =
            IF PreSaveNameThrows(profiles, @.id, @.userId, @.name # @.loaded.profileName, @.name)
            THEN Done(@, "ERROR")
            ELSE [@ EXCEPT !.pc = "updateWrite"]]
    /\ UNCHANGED <<profiles, nextId>> /\ RaceFrame

\* profile.save(): updateOne({ _id }, { $set: <the modified paths> })
UpdateWrite(r) ==
    /\ pproc[r].pc = "updateWrite"
    /\ LET req == pproc[r]
           nameModified == req.name # req.loaded.profileName
           flagModified == req.flag # req.loaded.isDefault
           stored == profiles[req.id]
           res == IF ~nameModified /\ ~flagModified THEN "ok"
                  ELSE IF ~stored.exists THEN "DOC_NOT_FOUND"
                  ELSE IF nameModified /\ ~UniqueIndexAllows(profiles, req.id, req.userId, req.name)
                  THEN "DUPLICATE_KEY"
                  ELSE "ok"
           ok == res = "ok"
       IN  /\ profiles' =
                IF ok /\ (nameModified \/ flagModified)
                THEN [profiles EXCEPT
                        ![req.id].profileName = IF nameModified THEN req.name ELSE @,
                        ![req.id].isDefault = IF flagModified THEN req.flag ELSE @]
                ELSE profiles
           /\ pproc' = [pproc EXCEPT ![r] = Done(req, res)]
    /\ UNCHANGED nextId /\ RaceFrame

\* setDefaultProfile: await Profile.findOne({ _id: profileId, userId })
SetDefaultFind(r, userId, id) ==
    /\ MayBegin(r, pproc)
    /\ LET req == Begin(r, "setDefault", userId, id, Unset)
       IN  pproc' = [pproc EXCEPT ![r] =
                IF ~(profiles[id].exists /\ profiles[id].userId = userId)
                THEN Done(req, "NOT_FOUND")
                ELSE [req EXCEPT !.pc = "setDefaultUnset"]]
    /\ UNCHANGED <<profiles, nextId>> /\ RaceFrame

\* setDefaultProfile: await Profile.updateMany(<the others>, isDefault: false)
SetDefaultUnset(r) ==
    /\ pproc[r].pc = "setDefaultUnset"
    /\ profiles' = UnsetOthers(profiles, pproc[r].userId, pproc[r].id)
    /\ pproc' = [pproc EXCEPT ![r].pc = "setDefaultSet"]
    /\ UNCHANGED nextId /\ RaceFrame

\* setDefaultProfile: await Profile.findByIdAndUpdate(profileId, isDefault: true)
SetDefaultSet(r) ==
    /\ pproc[r].pc = "setDefaultSet"
    /\ LET id == pproc[r].id
       IN  profiles' = IF profiles[id].exists
                       THEN [profiles EXCEPT ![id].isDefault = TRUE]
                       ELSE profiles
    /\ pproc' = [pproc EXCEPT ![r] = Done(@, "ok")]
    /\ UNCHANGED nextId /\ RaceFrame

\* deleteProfileById: await getProfileById(profileId)
DeleteLoad(r, id) ==
    /\ MayBegin(r, pproc)
    /\ LET req == Begin(r, "delete", profiles[id].userId, id, Unset)
       IN  pproc' = [pproc EXCEPT ![r] =
                IF ~profiles[id].exists
                THEN Done(req, "NOT_FOUND")
                ELSE [req EXCEPT !.loaded = profiles[id],
                                 !.pc = IF profiles[id].isDefault THEN "deleteFindOther"
                                        ELSE "deleteRemove"]]
    /\ UNCHANGED <<profiles, nextId>> /\ RaceFrame

\* deleteProfileById: await Profile.findOne(<another profile of the account>)
DeleteFindOther(r, other) ==
    /\ pproc[r].pc = "deleteFindOther"
    /\ LET req == pproc[r]
           others == ProfilesOf(profiles, req.userId) \ {req.id}
       IN  /\ IF others # {} THEN other \in others ELSE other = NoId
           /\ pproc' = [pproc EXCEPT ![r] =
                IF other = NoId
                THEN [@ EXCEPT !.pc = "deleteRemove"]
                ELSE [@ EXCEPT !.pc = "deleteHookDefault", !.other = other,
                               !.flag = profiles[other].isDefault]]
    /\ UNCHANGED <<profiles, nextId>> /\ RaceFrame

\* otherProfile.save(): pre('save') #1 (req.flag: otherProfile was default
\* when it was loaded, so setting isDefault modifies nothing)
DeleteHookDefault(r) ==
    /\ pproc[r].pc = "deleteHookDefault"
    /\ LET req == pproc[r]
       IN  profiles' = PreSaveDefault(profiles, req.other, req.userId, ~req.flag, TRUE)
    /\ pproc' = [pproc EXCEPT ![r].pc = "deletePromote"]
    /\ UNCHANGED nextId /\ RaceFrame

\* otherProfile.save(): updateOne({ _id }, { $set: { isDefault: true } })
DeletePromote(r) ==
    /\ pproc[r].pc = "deletePromote"
    /\ LET req == pproc[r]
           ok == req.flag \/ profiles[req.other].exists
       IN  /\ profiles' = IF ok /\ ~req.flag
                           THEN [profiles EXCEPT ![req.other].isDefault = TRUE]
                           ELSE profiles
           /\ pproc' = [pproc EXCEPT ![r] =
                IF ok THEN [@ EXCEPT !.pc = "deleteRemove"] ELSE Done(@, "DOC_NOT_FOUND")]
    /\ UNCHANGED nextId /\ RaceFrame

\* deleteProfileById: await Profile.deleteOne({ _id: profileId })
DeleteRemove(r) ==
    /\ pproc[r].pc = "deleteRemove"
    /\ profiles' = [profiles EXCEPT ![pproc[r].id] = Absent]
    /\ pproc' = [pproc EXCEPT ![r] = Done(@, "ok")]
    /\ UNCHANGED nextId /\ RaceFrame

\* controller deleteProfile: await getProfileById(profileId), then the
\* ownership test
ControllerDeleteLoad(r, caller, id) ==
    /\ MayBegin(r, pproc)
    /\ LET req == Begin(r, "deleteProfile", caller, id, Unset)
       IN  pproc' = [pproc EXCEPT ![r] =
                IF ~profiles[id].exists THEN Done(req, "NOT_FOUND")
                ELSE IF ~Owns(profiles, id, caller) THEN Done(req, "FORBIDDEN")
                ELSE [req EXCEPT !.pc = "controllerDeleteCount"]]
    /\ UNCHANGED <<profiles, nextId>> /\ RaceFrame

\* controller deleteProfile: await getProfilesByUserId(req.user.id), then the
\* length test
ControllerDeleteCount(r) ==
    /\ pproc[r].pc = "controllerDeleteCount"
    /\ pproc' = [pproc EXCEPT ![r] =
            IF OnlyProfile(profiles, @.userId)
            THEN Done(@, "BAD_REQUEST")
            ELSE [@ EXCEPT !.pc = "controllerDeleteService"]]
    /\ UNCHANGED <<profiles, nextId>> /\ RaceFrame

\* controller deleteProfile: await deleteProfileById(profileId), which begins
\* with its own await getProfileById(profileId)
ControllerDeleteService(r) ==
    /\ pproc[r].pc = "controllerDeleteService"
    /\ LET id == pproc[r].id
       IN  pproc' = [pproc EXCEPT ![r] =
                IF ~profiles[id].exists
                THEN Done(@, "NOT_FOUND")
                ELSE [@ EXCEPT !.loaded = profiles[id],
                               !.pc = IF profiles[id].isDefault THEN "deleteFindOther"
                                      ELSE "deleteRemove"]]
    /\ UNCHANGED <<profiles, nextId>> /\ RaceFrame

(***************************************************************************)
(* The content item (post.model.js; question.model.js has the same         *)
(* methods line for line) and its engagement methods.  A method changes    *)
(* the document in memory and ends in this.save().                         *)
(***************************************************************************)
NewItem ==
    [exists |-> TRUE,
     likedBy |-> <<>>, dislikedBy |-> <<>>, savedBy |-> <<>>, sharedBy |-> <<>>,
     likeCount |-> 0, unlikeCount |-> 0, saveCount |-> 0, shareCount |-> 0, v |-> 0]

\* The slot of the item once deletePostById has removed it.
NoItem == [NewItem EXCEPT !.exists = FALSE]

ListFields == {"likedBy", "dislikedBy", "savedBy", "sharedBy"}
CountFields == {"likeCount", "unlikeCount", "saveCount", "shareCount"}

\* Array.prototype.includes
Includes(list, profileId) == \E i \in 1..Len(list) : list[i] = profileId

\* Array.prototype.indexOf, 1-based; 0 stands for JavaScript's -1.
IndexOf(list, profileId) ==
    IF Includes(list, profileId)
    THEN CHOOSE i \in 1..Len(list) :
            /\ list[i] = profileId
            /\ \A j \in 1..(i - 1) : list[j] # profileId
    ELSE 0

\* list.splice(index, 1)
Splice(list, index) == SubSeq(list, 1, index - 1) \o SubSeq(list, index + 1, Len(list))

\* (addLike that leaves the profile in dislikedBy)
addLike_KeepDislike(doc, profileId) ==
    IF ~Includes(doc.likedBy, profileId)
    THEN [doc EXCEPT !.likedBy = Append(@, profileId), !.likeCount = @ + 1]
    ELSE doc

\* methods.addLike, up to the save
addLike(doc, profileId) ==
    IF ~Includes(doc.likedBy, profileId)
    THEN LET d1 == [doc EXCEPT !.likedBy = Append(@, profileId), !.likeCount = @ + 1]
             dislikeIndex == IndexOf(d1.dislikedBy, profileId)
         IN  IF dislikeIndex # 0
             THEN [d1 EXCEPT !.dislikedBy = Splice(@, dislikeIndex), !.unlikeCount = @ - 1]
             ELSE d1
    ELSE doc

\* (removeLike without the index !== -1 test: splice(-1, 1) drops the last
\* element)
removeLike_NoGuard(doc, profileId) ==
    LET index == IndexOf(doc.likedBy, profileId)
    IN  IF index # 0
        THEN [doc EXCEPT !.likedBy = Splice(@, index), !.likeCount = @ - 1]
        ELSE [doc EXCEPT !.likedBy = SubSeq(@, 1, Len(@) - 1), !.likeCount = @ - 1]

\* methods.removeLike
removeLike(doc, profileId) ==
    LET index == IndexOf(doc.likedBy, profileId)
    IN  IF index # 0
        THEN [doc EXCEPT !.likedBy = Splice(@, index), !.likeCount = @ - 1]
        ELSE doc

\* (addDislike that leaves the profile in likedBy)
addDislike_KeepLike(doc, profileId) ==
    IF ~Includes(doc.dislikedBy, profileId)
    THEN [doc EXCEPT !.dislikedBy = Append(@, profileId), !.unlikeCount = @ + 1]
    ELSE doc

\* methods.addDislike
addDislike(doc, profileId) ==
    IF ~Includes(doc.dislikedBy, profileId)
    THEN LET d1 == [doc EXCEPT !.dislikedBy = Append(@, profileId), !.unlikeCount = @ + 1]
             likeIndex == IndexOf(d1.likedBy, profileId)
         IN  IF likeIndex # 0
             THEN [d1 EXCEPT !.likedBy = Splice(@, likeIndex), !.likeCount = @ - 1]
             ELSE d1
    ELSE doc

\* (removeDislike that also takes the profile out of savedBy)
removeDislike_Unsave(doc, profileId) ==
    LET index == IndexOf(doc.dislikedBy, profileId)
        saveIndex == IndexOf(doc.savedBy, profileId)
    IN  IF index # 0
        THEN [doc EXCEPT !.dislikedBy = Splice(@, index), !.unlikeCount = @ - 1,
                         !.savedBy = IF saveIndex # 0 THEN Splice(@, saveIndex) ELSE @,
                         !.saveCount = IF saveIndex # 0 THEN @ - 1 ELSE @]
        ELSE doc

\* methods.removeDislike
removeDislike(doc, profileId) ==
    LET index == IndexOf(doc.dislikedBy, profileId)
    IN  IF index # 0
        THEN [doc EXCEPT !.dislikedBy = Splice(@, index), !.unlikeCount = @ - 1]
        ELSE doc

\* (addSave without the includes test)
addSave_Always(doc, profileId) ==
    [doc EXCEPT !.savedBy = Append(@, profileId), !.saveCount = @ + 1]

\* methods.addSave
addSave(doc, profileId) ==
    IF ~Includes(doc.savedBy, profileId)
    THEN [doc EXCEPT !.savedBy = Append(@, profileId), !.saveCount = @ + 1]
    ELSE doc

\* (removeSave that forgets the counter)
removeSave_NoDecrement(doc, profileId) ==
    LET index == IndexOf(doc.savedBy, profileId)
    IN  IF index # 0 THEN [doc EXCEPT !.savedBy = Splice(@, index)] ELSE doc

\* methods.removeSave
removeSave(doc, profileId) ==
    LET index == IndexOf(doc.savedBy, profileId)
    IN  IF index # 0
        THEN [doc EXCEPT !.savedBy = Splice(@, index), !.saveCount = @ - 1]
        ELSE doc

\* (addShare as a toggle)
addShare_Toggle(doc, profileId) ==
    LET index == IndexOf(doc.sharedBy, profileId)
    IN  IF index # 0
        THEN [doc EXCEPT !.sharedBy = Splice(@, index), !.shareCount = @ - 1]
        ELSE [doc EXCEPT !.sharedBy = Append(@, profileId), !.shareCount = @ + 1]

\* methods.addShare
addShare(doc, profileId) ==
    IF ~Includes(doc.sharedBy, profileId)
    THEN [doc EXCEPT !.sharedBy = Append(@, profileId), !.shareCount = @ + 1]
    ELSE doc

EngagementOps == {"like", "unlike", "dislike", "removeDislike", "save", "unsave", "share"}

\* The method each service call ends in (likePost -> addLike, ...).
Method(op, doc, profileId) ==
    CASE op = "like" -> addLike(doc, profileId)
      [] op = "unlike" -> removeLike(doc, profileId)
      [] op = "dislike" -> addDislike(doc, profileId)
      [] op = "removeDislike" -> removeDislike(doc, profileId)
      [] op = "save" -> addSave(doc, profileId)
      [] op = "unsave" -> removeSave(doc, profileId)
      [] op = "share" -> addShare(doc, profileId)

(***************************************************************************)
(* this.save() of a loaded document.  Mongoose writes the changes only,    *)
(* in one updateOne: a counter that changed is $set to its new value; a    *)
(* list that grew by push() is written as $push of the new elements; a     *)
(* list changed by splice() is $set as a whole, and then the update is     *)
(* conditioned on the version key __v the document was loaded with         *)
(* (VersionError when it no longer matches).  Any change of a list         *)
(* increments __v.                                                         *)
(***************************************************************************)
Pushed(loaded, doc, f) == Len(doc[f]) > Len(loaded[f])
Spliced(loaded, doc, f) == Len(doc[f]) < Len(loaded[f])

\* (a save whose update is never conditioned on the version key)
VersionError_Never(stored, loaded, doc) == FALSE

\* Does the updateOne of save() match no document (VersionError)?
VersionError(stored, loaded, doc) ==
    /\ \E f \in ListFields : Spliced(loaded, doc, f)
    /\ stored.v # loaded.v

\* (a save that sends the pushes and the counters but not the spliced lists)
Written_PushOnly(stored, loaded, doc) ==
    [f \in DOMAIN stored |->
        IF f \in ListFields
        THEN IF Pushed(loaded, doc, f)
             THEN stored[f] \o SubSeq(doc[f], Len(loaded[f]) + 1, Len(doc[f]))
             ELSE stored[f]
        ELSE IF f \in CountFields
        THEN IF doc[f] # loaded[f] THEN doc[f] ELSE stored[f]
        ELSE IF f = "v"
        THEN IF \E g \in ListFields : doc[g] # loaded[g] THEN stored.v + 1 ELSE stored.v
        ELSE stored[f]]

\* The stored document after the updateOne of save().
Written(stored, loaded, doc) ==
    [f \in DOMAIN stored |->
        IF f \in ListFields
        THEN IF Pushed(loaded, doc, f)
             THEN stored[f] \o SubSeq(doc[f], Len(loaded[f]) + 1, Len(doc[f]))
             ELSE IF Spliced(loaded, doc, f) THEN doc[f] ELSE stored[f]
        ELSE IF f \in CountFields
        THEN IF doc[f] # loaded[f] THEN doc[f] ELSE stored[f]
        ELSE IF f = "v"
        THEN IF \E g \in ListFields : doc[g] # loaded[g] THEN stored.v + 1 ELSE stored.v
        ELSE stored[f]]

\* elast.repeat: the call before this one was the same call (same
\* operation, same profile) and returned.
NoItemCall == [op |-> "none", profileId |-> "none", res |-> "none", repeat |-> FALSE]

IdleItemRequest == [pc |-> "idle", op |-> "none", profileId |-> "none", loaded |-> NewItem, res |-> "none"]

\* (a lookup that never misses)
PostFound_Always(stored) == TRUE

\* const post = await getPostById(postId); if (!post) throw NOT_FOUND
PostFound(stored) == stored.exists

\* What a service call on the item leaves behind when it runs to completion
\* in one step: getPostById, the method (doc is its result), save.
Engaged(op, profileId, doc) ==
    /\ itemCalls' = itemCalls + 1
    /\ item' = IF PostFound(item) THEN Written(item, item, doc) ELSE item
    /\ elast' = [op |-> op, profileId |-> profileId,
                 res |-> IF PostFound(item) THEN "ok" ELSE "NOT_FOUND",
                 repeat |-> elast.op = op /\ elast.profileId = profileId /\ elast.res = "ok"]
    /\ UNCHANGED <<profileVars, raceVars, users>>

\* deletePostById / deleteQuestionById (the post count of the category,
\* which it also decrements, is not part of the item)
DeletePost ==
    /\ itemCalls < MaxItemCalls
    /\ itemCalls' = itemCalls + 1
    /\ item' = IF PostFound(item) THEN NoItem ELSE item
    /\ elast' = [op |-> "delete", profileId |-> "none",
                 res |-> IF PostFound(item) THEN "ok" ELSE "NOT_FOUND", repeat |-> FALSE]
    /\ UNCHANGED <<profileVars, raceVars, users>>

\* createPost / createQuestion: Post.create, then the await of
\* categoryService.incrementPostCount, which is outside any try; whether
\* that call rejects is up to the category service and the store.
CreatePost(incrementFails) ==
    /\ itemCalls < MaxItemCalls
    /\ ~item.exists
    /\ itemCalls' = itemCalls + 1
    /\ item' = NewItem
    /\ elast' = [op |-> "create", profileId |-> "none",
                 res |-> IF incrementFails THEN "ERROR" ELSE "ok", repeat |-> FALSE]
    /\ UNCHANGED <<profileVars, raceVars, users>>

\* An updateBody without a field of the engagement state (title, content...).
NoEngagementFields == [f \in {} |-> 0]

\* The updateBody objects updatePostById is called with.
PostPatches == {NoEngagementFields, [likeCount |-> 1], [sharedBy |-> <<>>]}

\* Object.assign(post, updateBody)
Assigned(doc, updateBody) ==
    [f \in DOMAIN doc |-> IF f \in DOMAIN updateBody THEN updateBody[f] ELSE doc[f]]

\* updatePostById / updateQuestionById
UpdatePostById(updateBody) ==
    /\ itemCalls < MaxItemCalls
    /\ itemCalls' = itemCalls + 1
    /\ item' = IF PostFound(item)
               THEN LET doc == Assigned(item, updateBody)
                    IN  [doc EXCEPT !.v = IF \E f \in ListFields : doc[f] # item[f]
                                          THEN @ + 1 ELSE @]
               ELSE item
    /\ elast' = [op |-> "update", profileId |-> "none",
                 res |-> IF PostFound(item) THEN "ok" ELSE "NOT_FOUND", repeat |-> FALSE]
    /\ UNCHANGED <<profileVars, raceVars, users>>

\* likePost / likeQuestion
Like(profileId) ==
    /\ itemCalls < MaxItemCalls
    /\ Engaged("like", profileId, addLike(item, profileId))

\* unlikePost / unlikeQuestion
Unlike(profileId) ==
    /\ itemCalls < MaxItemCalls
    /\ Engaged("unlike", profileId, removeLike(item, profileId))

\* dislikePost / dislikeQuestion
Dislike(profileId) ==
    /\ itemCalls < MaxItemCalls
    /\ Engaged("dislike", profileId, addDislike(item, profileId))

\* removeDislikePost / removeDislikeQuestion
RemoveDislike(profileId) ==
    /\ itemCalls < MaxItemCalls
    /\ Engaged("removeDislike", profileId, removeDislike(item, profileId))

\* savePost / saveQuestion
SaveItem(profileId) ==
    /\ itemCalls < MaxItemCalls
    /\ Engaged("save", profileId, addSave(item, profileId))

\* unsavePost / unsaveQuestion
Unsave(profileId) ==
    /\ itemCalls < MaxItemCalls
    /\ Engaged("unsave", profileId, removeSave(item, profileId))

\* sharePost / shareQuestion
Share(profileId) ==
    /\ itemCalls < MaxItemCalls
    /\ Engaged("share", profileId, addShare(item, profileId))

\* likePost, ..., sharePost up to the await: getPostById(postId)
BeginItemCall(r, op, profileId) ==
    /\ MayBegin(r, eproc)
    /\ eproc' = [eproc EXCEPT ![r] =
            IF PostFound(item)
            THEN [pc |-> "loaded", op |-> op, profileId |-> profileId,
                  loaded |-> item, res |-> "none"]
            ELSE [pc |-> "done", op |-> op, profileId |-> profileId,
                  loaded |-> NewItem, res |-> "NOT_FOUND"]]
    /\ UNCHANGED <<profileVars, itemVars, pproc, users>>

\* The method on the loaded document, and its save()
FinishItemCall(r) ==
    /\ eproc[r].pc = "loaded"
    /\ LET req == eproc[r]
           doc == Method(req.op, req.loaded, req.profileId)
           failed == VersionError(item, req.loaded, doc)
       IN  /\ item' = IF failed THEN item ELSE Written(item, req.loaded, doc)
           /\ eproc' = [eproc EXCEPT ![r].pc = "done", ![r].loaded = NewItem,
                                     ![r].res = IF failed THEN "VERSION_ERROR" ELSE "ok"]
    /\ UNCHANGED <<profileVars, itemCalls, elast, pproc, users>>

(***************************************************************************)
(* Specifications.                                                         *)
(***************************************************************************)
Init ==
    /\ profiles = [i \in ProfileIds |-> Absent]
    /\ nextId = 1
    /\ last = NoCall
    /\ item = NewItem
    /\ itemCalls = 0
    /\ elast = NoItemCall
    /\ pproc = [r \in Requests |-> IdleProfileRequest]
    /\ eproc = [r \in Requests |-> IdleItemRequest]
    /\ users = [u \in Users |-> NoUser]

Next ==
    \/ \E u \in Users, n \in Names, d \in PatchFlags : CreateProfile(u, n, d)
    \/ \E i \in ProfileIds, n \in PatchNames, f \in PatchFlags : UpdateProfileById(i, n, f)
    \/ \E u \in Users, i \in ProfileIds : SetDefaultProfile(u, i)
    \/ \E i \in ProfileIds, o \in ProfileIds \cup {NoId} : DeleteProfileById(i, o)
    \/ \E u \in Users, i \in ProfileIds \cup {NoId} : GetDefaultProfile(u, i)
    \/ \E u \in Users : GetProfilesByUserId(u)

\* The profile service, one call at a time, from an empty collection.
Spec == Init /\ [][Next]_vars

\* The profile names the requests of the routes carry
ApiNames == {"bob"}

NextApi ==
    \/ \E u \in Users, b \in UserBodies, k \in RandomSamples : CreateUser(u, b, k)
    \/ \E c \in Users, n \in ApiNames, d \in {"true", "false"} : ControllerCreateProfile(c, n, d)
    \/ \E c \in Users, i \in ProfileIds : ControllerGetProfile(c, i)
    \/ \E c \in Users : ControllerGetUserProfiles(c)
    \/ \E c \in Users, i \in ProfileIds \cup {NoId} : ControllerGetDefaultProfile(c, i)
    \/ \E c \in Users, i \in ProfileIds, n \in ApiNames \cup {Unset}, f \in PatchFlags :
            ControllerUpdateProfile(c, i, n, f)
    \/ \E c \in Users, i \in ProfileIds : ControllerSetDefaultProfile(c, i)
    \/ \E c \in Users, i \in ProfileIds, o \in ProfileIds \cup {NoId} :
            ControllerDeleteProfile(c, i, o)

NextAccounts ==
    \/ \E u \in Users, b \in UserBodies, k \in RandomSamples : CreateUser(u, b, k)
    \/ \E u \in Users, n \in ApiNames, d \in {"true", "false"} : CreateProfile(u, n, d)
    \/ \E i \in ProfileIds, n \in ApiNames \cup {Unset}, f \in PatchFlags :
            UpdateProfileById(i, n, f)
    \/ \E u \in Users, i \in ProfileIds : SetDefaultProfile(u, i)
    \/ \E i \in ProfileIds, o \in ProfileIds \cup {NoId} : DeleteProfileById(i, o)

\* The profile service and the account bootstrap, one call at a time, from
\* an empty store.
SpecAccounts == Init /\ [][NextAccounts]_vars

\* Accounts are created by createUser and then use the profile routes, one
\* request at a time.
SpecApi == Init /\ [][NextApi]_vars

\* C21: when createUser persists the account and both profile creations
\* succeed, the account has exactly two profiles: one named after the
\* account, of type public, status public and default; the other named
\* "Neswa" followed by six digits, anonymous, private and not default.
Digits == {"0", "1", "2", "3", "4", "5", "6", "7", "8", "9"}

IsGeneratedName(name) ==
    /\ Len(name) = 11
    /\ SubSeq(name, 1, 5) = "Neswa"
    /\ \A k \in 6..11 : SubSeq(name, k, k) \in Digits

BothCreated(u) ==
    /\ last'.op = "createUser"
    /\ last'.userId = u
    /\ users'[u].exists
    /\ Cardinality(ProfilesOf(profiles', u)) >= 2

C21_CreateUserProfiles ==
    [][\A u \in Users : BothCreated(u) =>
          \E i, j \in ProfilesOf(profiles', u) :
             /\ i # j
             /\ ProfilesOf(profiles', u) = {i, j}
             /\ ProfilesOf(profiles, u) = {}
             /\ profiles'[i].profileName = users'[u].name
             /\ profiles'[i].profileType = "public"
             /\ profiles'[i].status = "public"
             /\ profiles'[i].isDefault
             /\ IsGeneratedName(profiles'[j].profileName)
             /\ profiles'[j].profileType = "anonymous"
             /\ profiles'[j].status = "private"
             /\ ~profiles'[j].isDefault]_vars

C21_Witness ==
    /\ last.op = "createUser"
    /\ last.userId \in Users
    /\ Cardinality(ProfilesOf(profiles, last.userId)) = 2
    /\ \E j \in ProfilesOf(profiles, last.userId) : profiles[j].profileType = "anonymous"

\* C22: once the account record is persisted, createUser returns the
\* account without raising, whether the first profile creation, the second
\* or neither of them fails.
C22_CreateUserNeverRaises ==
    [][\A u \in Users :
          (last'.op = "createUser" /\ ~users[u].exists /\ users'[u].exists)
              => (last'.res = "ok" /\ last'.userId = u)]_vars

C22_Witness ==
    /\ last.op = "createUser"
    /\ last.res = "ok"
    /\ last.userId \in Users
    /\ users[last.userId].exists
    /\ ProfilesOf(profiles, last.userId) = {}

\* C23: the controller's deleteProfile, asked to delete the only profile of
\* the caller's account, answers 400 and leaves the profile unchanged.
C23_DeleteOnlyProfileRefused ==
    [][\A c \in Users, i \in ProfileIds :
          (/\ last'.op = "deleteProfile"
           /\ last'.userId = c
           /\ last'.profileId = i
           /\ ProfilesOf(profiles, c) = {i})
              => (last'.res = "BAD_REQUEST" /\ profiles' = profiles)]_vars

C23_Witness ==
    /\ last.op = "deleteProfile"
    /\ last.res = "BAD_REQUEST"
    /\ ProfilesOf(profiles, last.userId) = {last.profileId}

\* C24: the controller's updateProfile, deleteProfile and getProfile, asked
\* for an existing profile of another account, answer 403 and modify
\* nothing.
ControllerOps == {"updateProfile", "deleteProfile", "getProfile"}

C24_ForeignProfileForbidden ==
    [][\A c \in Users, i \in ProfileIds :
          (/\ last'.op \in ControllerOps
           /\ last'.userId = c
           /\ last'.profileId = i
           /\ profiles[i].exists
           /\ profiles[i].userId # c)
              => (last'.res = "FORBIDDEN" /\ profiles' = profiles)]_vars

C24_Witness ==
    /\ last.op = "deleteProfile"
    /\ last.res = "FORBIDDEN"
    /\ profiles[last.profileId].exists
    /\ profiles[last.profileId].userId # last.userId

\* Any store the program can hold: names are unique within an account (the
\* unique index), the default flags are arbitrary (concurrent requests leave
\* an account with none or with several, see SpecProfileRace).
AnyDocuments == {Absent} \cup
    {Doc(u, n, d) : u \in Users, n \in Names, d \in BOOLEAN}

InitAnyStore ==
    /\ nextId \in 1..(MaxProfiles + 1)
    /\ profiles \in {db \in [ProfileIds -> AnyDocuments] :
            /\ \A i \in ProfileIds : db[i].exists <=> i < nextId
            /\ \A i \in ProfileIds : db[i].exists =>
                    UniqueIndexAllows(db, i, db[i].userId, db[i].profileName)}
    /\ last = NoCall
    /\ item = NewItem
    /\ itemCalls = 0
    /\ elast = NoItemCall
    /\ pproc = [r \in Requests |-> IdleProfileRequest]
    /\ eproc = [r \in Requests |-> IdleItemRequest]
    /\ users = [u \in Users |-> NoUser]

\* The profile service, one call at a time, from any store.
SpecAnyStore == InitAnyStore /\ [][Next]_vars

NextEngage ==
    \/ \E p \in Reactors : Like(p)
    \/ \E p \in Reactors : Unlike(p)
    \/ \E p \in Reactors : Dislike(p)
    \/ \E p \in Reactors : RemoveDislike(p)
    \/ \E p \in Reactors : SaveItem(p)
    \/ \E p \in Reactors : Unsave(p)
    \/ \E p \in Reactors : Share(p)
    \/ DeletePost

\* The engagement calls on one content item, one call at a time.
SpecEngage == Init /\ [][NextEngage]_vars

InitContent ==
    /\ profiles = [i \in ProfileIds |-> Absent]
    /\ nextId = 1
    /\ last = NoCall
    /\ item = NoItem
    /\ itemCalls = 0
    /\ elast = NoItemCall
    /\ pproc = [r \in Requests |-> IdleProfileRequest]
    /\ eproc = [r \in Requests |-> IdleItemRequest]
    /\ users = [u \in Users |-> NoUser]

NextContent ==
    \/ \E f \in BOOLEAN : CreatePost(f)
    \/ \E b \in PostPatches : UpdatePostById(b)
    \/ NextEngage

\* The post / question service, one call at a time, from an empty
\* collection.
SpecContent == InitContent /\ [][NextContent]_vars

\* The stores the profile service reaches one call at a time: ids handed out
\* in order, names unique within an account, at most one default per account.
Documents == {Absent} \cup
    {Doc(u, n, d) : u \in RaceUsers, n \in Names, d \in BOOLEAN}

SequentialStore(db, k) ==
    /\ \A i \in ProfileIds : db[i].exists <=> i <= k
    /\ \A i, j \in ProfileIds :
          (i # j /\ db[i].exists /\ db[j].exists /\ db[i].userId = db[j].userId)
              => /\ db[i].profileName # db[j].profileName
                 /\ ~(db[i].isDefault /\ db[j].isDefault)

InitProfileRace ==
    /\ nextId \in 1..(MaxProfiles + 1)
    /\ profiles \in {db \in [ProfileIds -> Documents] : SequentialStore(db, nextId - 1)}
    /\ last = NoCall
    /\ item = NewItem
    /\ itemCalls = 0
    /\ elast = NoItemCall
    /\ pproc = [r \in Requests |-> IdleProfileRequest]
    /\ eproc = [r \in Requests |-> IdleItemRequest]
    /\ users = [u \in Users |-> NoUser]

NextProfileRace ==
    \/ \E r \in Requests, u \in RaceUsers, n \in Names, d \in {"true", "false"} :
            CreateCheckName(r, u, n, d)
    \/ \E r \in Requests : CreateFind(r)
    \/ \E r \in Requests : CreateHookDefault(r)
    \/ \E r \in Requests : CreateHookName(r)
    \/ \E r \in Requests : CreateInsert(r)
    \/ \E r \in Requests, i \in ProfileIds, n \in PatchNames, f \in PatchFlags :
            UpdateLoad(r, i, n, f)
    \/ \E r \in Requests : UpdateCheckName(r)
    \/ \E r \in Requests : UpdateHookDefault(r)
    \/ \E r \in Requests : UpdateHookName(r)
    \/ \E r \in Requests : UpdateWrite(r)
    \/ \E r \in Requests, u \in RaceUsers, i \in ProfileIds : SetDefaultFind(r, u, i)
    \/ \E r \in Requests : SetDefaultUnset(r)
    \/ \E r \in Requests : SetDefaultSet(r)
    \/ \E r \in Requests, i \in ProfileIds : DeleteLoad(r, i)
    \/ \E r \in Requests, o \in ProfileIds \cup {NoId} : DeleteFindOther(r, o)
    \/ \E r \in Requests : DeleteHookDefault(r)
    \/ \E r \in Requests : DeletePromote(r)
    \/ \E r \in Requests : DeleteRemove(r)

\* Concurrent requests to the profile service on one account.
SpecProfileRace == InitProfileRace /\ [][NextProfileRace]_vars

NextUpdateRace ==
    \/ \E r \in Requests, i \in ProfileIds, n \in PatchNames : UpdateLoad(r, i, n, "true")
    \/ \E r \in Requests : UpdateCheckName(r)
    \/ \E r \in Requests : UpdateHookDefault(r)
    \/ \E r \in Requests : UpdateHookName(r)
    \/ \E r \in Requests : UpdateWrite(r)

\* Concurrent updateProfileById calls on one account whose patch carries
\* isDefault: true.
SpecUpdateRace == InitProfileRace /\ [][NextUpdateRace]_vars

NextUpdate ==
    \E i \in ProfileIds, n \in PatchNames, f \in PatchFlags : UpdateProfileById(i, n, f)

\* updateProfileById calls, one at a time, on every store of one account the
\* service reaches one call at a time.
SpecUpdate == InitProfileRace /\ [][NextUpdate]_vars

\* The stores in which every account that has a profile has exactly one
\* default profile.
InitOneDefault ==
    /\ InitProfileRace
    /\ \A u \in RaceUsers :
          ProfilesOf(profiles, u) # {} => Cardinality(DefaultsOf(profiles, u)) = 1

NextDefaultRace ==
    \/ \E r \in Requests, u \in RaceUsers, i \in ProfileIds : SetDefaultFind(r, u, i)
    \/ \E r \in Requests : SetDefaultUnset(r)
    \/ \E r \in Requests : SetDefaultSet(r)
    \/ \E r \in Requests, i \in ProfileIds : DeleteLoad(r, i)
    \/ \E r \in Requests, o \in ProfileIds \cup {NoId} : DeleteFindOther(r, o)
    \/ \E r \in Requests : DeleteHookDefault(r)
    \/ \E r \in Requests : DeletePromote(r)
    \/ \E r \in Requests : DeleteRemove(r)

\* Concurrent deleteProfileById and setDefaultProfile calls on one account
\* that has one default profile.
SpecDefaultRace == InitOneDefault /\ [][NextDefaultRace]_vars

NextControllerDeleteRace ==
    \/ \E r \in Requests, c \in RaceUsers, i \in ProfileIds : ControllerDeleteLoad(r, c, i)
    \/ \E r \in Requests : ControllerDeleteCount(r)
    \/ \E r \in Requests : ControllerDeleteService(r)
    \/ \E r \in Requests, o \in ProfileIds \cup {NoId} : DeleteFindOther(r, o)
    \/ \E r \in Requests : DeleteHookDefault(r)
    \/ \E r \in Requests : DeletePromote(r)
    \/ \E r \in Requests : DeleteRemove(r)

\* Concurrent deleteProfile requests of one account to the controller.
SpecControllerDeleteRace == InitOneDefault /\ [][NextControllerDeleteRace]_vars

\* The lists a membership list can be when calls run one at a time.
ReactorLists ==
    {<<>>} \cup {<<p>> : p \in Reactors}
           \cup ({<<p, q>> : p, q \in Reactors} \ {<<p, p>> : p \in Reactors})

\* The items the engagement calls reach one call at a time.
SequentialItems ==
    {[exists |-> TRUE, likedBy |-> l, dislikedBy |-> d, savedBy |-> s, sharedBy |-> h,
      likeCount |-> Len(l), unlikeCount |-> Len(d), saveCount |-> Len(s),
      shareCount |-> Len(h), v |-> 0] :
        l \in ReactorLists, d \in ReactorLists, s \in ReactorLists, h \in ReactorLists}

InitItemRace ==
    /\ profiles = [i \in ProfileIds |-> Absent]
    /\ nextId = 1
    /\ last = NoCall
    /\ item \in {it \in SequentialItems :
                    \A p \in Reactors : ~(Includes(it.likedBy, p) /\ Includes(it.dislikedBy, p))}
    /\ itemCalls = 0
    /\ elast = NoItemCall
    /\ pproc = [r \in Requests |-> IdleProfileRequest]
    /\ eproc = [r \in Requests |-> IdleItemRequest]
    /\ users = [u \in Users |-> NoUser]

NextItemRace ==
    \/ \E r \in Requests, op \in EngagementOps, p \in Reactors : BeginItemCall(r, op, p)
    \/ \E r \in Requests : FinishItemCall(r)

\* Concurrent requests to the post / question service on one content item.
SpecItemRace == InitItemRace /\ [][NextItemRace]_vars

\* Both concurrent item requests have completed.
BothCompleted == \A r \in Requests : eproc[r].pc = "done"

NextItemRaceThen ==
    \/ NextItemRace
    \/ BothCompleted /\ \E p \in Reactors : Unlike(p)
    \/ BothCompleted /\ \E p \in Reactors : RemoveDislike(p)
    \/ BothCompleted /\ \E p \in Reactors : Unsave(p)

\* Two concurrent requests on a new content item, followed by unlike,
\* removeDislike and unsave calls one at a time.
SpecItemRaceThen == Init /\ [][NextItemRaceThen]_vars

(***************************************************************************)
(* Properties.                                                             *)
(***************************************************************************)
\* Every counter of the item equals the length of its membership list.
CountersMatch(it) ==
    /\ it.likeCount = Len(it.likedBy)
    /\ it.unlikeCount = Len(it.dislikedBy)
    /\ it.saveCount = Len(it.savedBy)
    /\ it.shareCount = Len(it.sharedBy)

\* Both concurrent profile requests have returned from a call of `op`.
BothReturned(op) ==
    \A r \in Requests : pproc[r].pc = "done" /\ pproc[r].op = op /\ pproc[r].res = "ok"

\* C1: after every sequence of createProfile, updateProfileById,
\* setDefaultProfile and deleteProfileById calls run one at a time, every
\* account that has a profile has exactly one profile with isDefault = true.
C1_ExactlyOneDefault ==
    \A u \in Users :
        ProfilesOf(profiles, u) # {} => Cardinality(DefaultsOf(profiles, u)) = 1

\* C2: once two setDefaultProfile calls on the same account that target two
\* different profiles have both completed, however their steps interleaved,
\* exactly one profile of the account has isDefault = true.
C2_ConcurrentSetDefault ==
    (/\ BothReturned("setDefault")
     /\ pproc["r1"].userId = pproc["r2"].userId
     /\ pproc["r1"].id # pproc["r2"].id)
        => Cardinality(DefaultsOf(profiles, pproc["r1"].userId)) = 1

\* C3: with the engagement calls run one at a time, no profile is ever in
\* both likedBy and dislikedBy of the item.
C3_LikeDislikeExclusive ==
    \A p \in Reactors : ~(Includes(item.likedBy, p) /\ Includes(item.dislikedBy, p))

\* C3 witness: the second call was a like by a profile the first call had put
\* in dislikedBy (both calls changed a list; only likedBy holds anything).
C3_Witness ==
    /\ elast.op = "like" /\ itemCalls = 2 /\ item.v = 2
    /\ item.likedBy = <<elast.profileId>>
    /\ item.dislikedBy = <<>> /\ item.savedBy = <<>> /\ item.sharedBy = <<>>

\* C4: with the engagement calls run one at a time, likeCount = |likedBy|,
\* unlikeCount = |dislikedBy|, saveCount = |savedBy|, shareCount = |sharedBy|.
C4_CountersMatch == CountersMatch(item)

\* C4 witness: two saves, then an unsave that removed one of them.
C4_Witness ==
    /\ elast.op = "unsave" /\ itemCalls = 3 /\ item.v = 3
    /\ Len(item.savedBy) = 1

\* C5: once two engagement calls by two different profiles on the item have
\* both completed, however they interleaved, every counter equals the length
\* of its membership list.
C5_ConcurrentCountersMatch ==
    (BothCompleted /\ eproc["r1"].profileId # eproc["r2"].profileId)
        => CountersMatch(item)

\* C6: once a like and a dislike by the same profile on the item have both
\* completed, however they interleaved, the profile is in at most one of
\* likedBy and dislikedBy.
C6_ConcurrentLikeDislike ==
    (/\ BothCompleted
     /\ eproc["r1"].profileId = eproc["r2"].profileId
     /\ {eproc["r1"].op, eproc["r2"].op} = {"like", "dislike"})
        => ~(/\ Includes(item.likedBy, eproc["r1"].profileId)
             /\ Includes(item.dislikedBy, eproc["r1"].profileId))

\* C7: createProfile with a name a profile of the same account already has
\* fails with 400 and leaves the collection as it was; with a name that only
\* profiles of other accounts have (or nobody has) it succeeds and the
\* collection gains the profile.
C7_CreateNameConflict ==
    [][\A u \in Users, n \in Names, d \in PatchFlags :
          CreateProfile(u, n, d) =>
            IF \E i \in ProfileIds : /\ profiles[i].exists
                                     /\ profiles[i].userId = u
                                     /\ profiles[i].profileName = n
            THEN last'.res = "BAD_REQUEST" /\ profiles' = profiles
            ELSE /\ last'.res = "ok"
                 /\ \E i \in ProfileIds :
                        /\ ~profiles[i].exists
                        /\ profiles'[i].exists
                        /\ profiles'[i].userId = u
                        /\ profiles'[i].profileName = n]_vars

\* C7 witness: a create was refused while two accounts hold the same name.
C7_Witness ==
    /\ last.op = "create" /\ last.res = "BAD_REQUEST"
    /\ \E i, j \in ProfileIds :
          /\ profiles[i].exists /\ profiles[j].exists
          /\ profiles[i].userId # profiles[j].userId
          /\ profiles[i].profileName = profiles[j].profileName

\* C8: in every state concurrent createProfile and updateProfileById calls
\* reach, no two profiles of one account have the same profileName.
C8_NamesUnique ==
    \A i, j \in ProfileIds :
        (/\ i # j
         /\ profiles[i].exists /\ profiles[j].exists
         /\ profiles[i].userId = profiles[j].userId)
            => profiles[i].profileName # profiles[j].profileName

\* C8 witness: a write passed the name check of the service and the name
\* hook, and was rejected by the unique index.
C8_Witness == \E r \in Requests : pproc[r].pc = "done" /\ pproc[r].res = "DUPLICATE_KEY"

\* C9: after a successful setDefaultProfile(userId, id) the target is default
\* and no other profile of the account is, whatever the flags were before.
C9_SetDefaultPost ==
    [][\A u \in Users, i \in ProfileIds :
          (SetDefaultProfile(u, i) /\ last'.res = "ok") =>
            /\ profiles'[i].exists /\ profiles'[i].isDefault
            /\ DefaultsOf(profiles', u) = {i}
            /\ ProfilesOf(profiles', u) = ProfilesOf(profiles, u)]_vars

\* C9 witness: a setDefaultProfile succeeded on an account that had several
\* default profiles.
C9_Witness == last.op = "setDefault" /\ last.res = "ok" /\ last.multi

\* C10: deleteProfileById on the default profile of an account with at least
\* two profiles removes it and leaves exactly one of the others default.
C10_DeleteDefault ==
    [][\A i \in ProfileIds, o \in ProfileIds \cup {NoId} :
          (/\ DeleteProfileById(i, o)
           /\ profiles[i].exists /\ profiles[i].isDefault
           /\ Cardinality(ProfilesOf(profiles, profiles[i].userId)) >= 2) =>
            LET u == profiles[i].userId
            IN  /\ ~profiles'[i].exists
                /\ ProfilesOf(profiles', u) = ProfilesOf(profiles, u) \ {i}
                /\ Cardinality(DefaultsOf(profiles', u)) = 1]_vars

\* C10 witness: the default profile of an account was deleted and the
\* account still has a profile.
C10_Witness ==
    /\ last.op = "delete" /\ last.res = "ok" /\ last.wasDefault
    /\ ProfilesOf(profiles, last.userId) # {}

\* C11: createProfile for an account that has no profile succeeds and the
\* profile it creates has isDefault = true, whatever isDefault the request
\* carries (true, false, or none).
C11_FirstProfileDefault ==
    [][\A u \in Users, n \in Names, d \in PatchFlags :
          (CreateProfile(u, n, d) /\ ProfilesOf(profiles, u) = {}) =>
            /\ last'.res = "ok"
            /\ \E i \in ProfileIds :
                  /\ ProfilesOf(profiles', u) = {i}
                  /\ profiles'[i].isDefault]_vars

\* C11 witness: a create that asked for isDefault = false made the only
\* profile of its account, and that profile is default.
C11_Witness ==
    /\ last.op = "create" /\ last.res = "ok" /\ last.asked = "false"
    /\ \E i \in ProfileIds :
          ProfilesOf(profiles, last.userId) = {i} /\ profiles[i].isDefault

\* C12: once two updateProfileById calls with isDefault = true on two
\* different profiles of one account have both completed, however their
\* steps interleaved, at most one profile of the account is default.
C12_ConcurrentUpdateDefault ==
    (/\ BothReturned("update")
     /\ pproc["r1"].userId = pproc["r2"].userId
     /\ pproc["r1"].id # pproc["r2"].id)
        => Cardinality(DefaultsOf(profiles, pproc["r1"].userId)) <= 1

\* C13: setDefaultProfile(userId, id) where the profile does not exist or
\* belongs to another account fails with 404 and changes no document.
C13_SetDefaultNotFound ==
    [][\A u \in Users, i \in ProfileIds :
          (SetDefaultProfile(u, i) /\ ~(profiles[i].exists /\ profiles[i].userId = u)) =>
            /\ last'.res = "NOT_FOUND"
            /\ profiles' = profiles]_vars

\* C13 witness: a setDefaultProfile was refused while every id was a
\* profile of another account, the refusing call's target included.
C13_Witness ==
    /\ last.op = "setDefault" /\ last.res = "NOT_FOUND"
    /\ \A i \in ProfileIds : profiles[i].exists /\ profiles[i].userId # last.userId
    /\ \E i \in ProfileIds : profiles[i].isDefault

\* The membership lists and the counters of two items are the same.
SameEngagement(a, b) ==
    /\ \A f \in ListFields : a[f] = b[f]
    /\ \A f \in CountFields : a[f] = b[f]

\* The call now made repeats the call made just before it.
Repeats(op, profileId) ==
    elast.op = op /\ elast.profileId = profileId /\ elast.res = "ok"

\* C14: a like that directly follows the same profile's like leaves the
\* lists and counters as the first like left them; the same for dislike,
\* save and share.
C14_Idempotent ==
    [][\A p \in Reactors :
          /\ (Like(p) /\ Repeats("like", p)) => SameEngagement(item', item)
          /\ (Dislike(p) /\ Repeats("dislike", p)) => SameEngagement(item', item)
          /\ (SaveItem(p) /\ Repeats("save", p)) => SameEngagement(item', item)
          /\ (Share(p) /\ Repeats("share", p)) => SameEngagement(item', item)]_vars

\* C14 witness: a save that repeated the save before it has returned.
C14_Witness ==
    /\ elast.op = "save" /\ elast.repeat /\ elast.res = "ok"
    /\ Includes(item.savedBy, elast.profileId)

\* C15: after like(P) on an existing item P is in likedBy and not in
\* dislikedBy, after dislike(P) P is in dislikedBy and not in likedBy, and
\* in both cases likeCount and unlikeCount change by exactly what the
\* lengths of likedBy and dislikedBy change by.
C15_LikeDislikePost ==
    [][\A p \in Reactors :
          /\ (Like(p) /\ item.exists) =>
                /\ Includes(item'.likedBy, p) /\ ~Includes(item'.dislikedBy, p)
                /\ item'.likeCount - item.likeCount = Len(item'.likedBy) - Len(item.likedBy)
                /\ item'.unlikeCount - item.unlikeCount
                        = Len(item'.dislikedBy) - Len(item.dislikedBy)
          /\ (Dislike(p) /\ item.exists) =>
                /\ Includes(item'.dislikedBy, p) /\ ~Includes(item'.likedBy, p)
                /\ item'.likeCount - item.likeCount = Len(item'.likedBy) - Len(item.likedBy)
                /\ item'.unlikeCount - item.unlikeCount
                        = Len(item'.dislikedBy) - Len(item.dislikedBy)]_vars

\* C15 witness: like then dislike by one profile on a new item (two calls,
\* both of which changed a list): likedBy = [], dislikedBy = [P],
\* likeCount = 0, unlikeCount = 1.
C15_Witness ==
    /\ elast.op = "dislike" /\ itemCalls = 2 /\ item.v = 2
    /\ item.likedBy = <<>> /\ item.dislikedBy = <<elast.profileId>>
    /\ item.likeCount = 0 /\ item.unlikeCount = 1
    /\ item.savedBy = <<>> /\ item.sharedBy = <<>>

C17_ShareMonotonic ==
    [][(item.exists /\ item'.exists) =>
          /\ \A p \in Reactors : Includes(item.sharedBy, p) => Includes(item'.sharedBy, p)
          /\ item'.shareCount >= item.shareCount]_vars

\* C17 witness: both profiles shared, and a share of one of them was then
\* repeated.
C17_Witness ==
    /\ elast.op = "share" /\ elast.repeat /\ elast.res = "ok"
    /\ Len(item.sharedBy) = 2 /\ item.shareCount = 2

\* C18: save and unsave change nothing but savedBy and saveCount; like,
\* unlike, dislike, removeDislike and share leave savedBy and saveCount as
\* they were.
C18_SavedAxisIndependent ==
    [][\A p \in Reactors :
          /\ (SaveItem(p) \/ Unsave(p)) =>
                /\ item'.likedBy = item.likedBy /\ item'.likeCount = item.likeCount
                /\ item'.dislikedBy = item.dislikedBy /\ item'.unlikeCount = item.unlikeCount
                /\ item'.sharedBy = item.sharedBy /\ item'.shareCount = item.shareCount
          /\ (Like(p) \/ Unlike(p) \/ Dislike(p) \/ RemoveDislike(p) \/ Share(p)) =>
                /\ item'.savedBy = item.savedBy /\ item'.saveCount = item.saveCount]_vars

\* C18 witness: a profile disliked and saved the item, and its
\* removeDislike then left it in savedBy (three calls, all of which changed
\* a list).
C18_Witness ==
    /\ elast.op = "removeDislike" /\ itemCalls = 3 /\ item.v = 3
    /\ item.savedBy = <<elast.profileId>> /\ item.saveCount = 1
    /\ item.dislikedBy = <<>> /\ item.likedBy = <<>> /\ item.sharedBy = <<>>

\* C19: unlike by a profile not in likedBy, removeDislike by a profile not
\* in dislikedBy and unsave by a profile not in savedBy return and leave the
\* stored item exactly as it was.
C19_RemoveAbsentNoOp ==
    [][\A p \in Reactors :
          /\ (Unlike(p) /\ item.exists /\ ~Includes(item.likedBy, p)) =>
                elast'.res = "ok" /\ item' = item
          /\ (RemoveDislike(p) /\ item.exists /\ ~Includes(item.dislikedBy, p)) =>
                elast'.res = "ok" /\ item' = item
          /\ (Unsave(p) /\ item.exists /\ ~Includes(item.savedBy, p)) =>
                elast'.res = "ok" /\ item' = item]_vars

\* C19 witness: one profile liked the item and the other profile's unlike
\* then changed nothing (two calls, one change).
C19_Witness ==
    /\ elast.op = "unlike" /\ elast.res = "ok" /\ itemCalls = 2 /\ item.v = 1
    /\ Len(item.likedBy) = 1 /\ item.likedBy[1] # elast.profileId
    /\ item.likeCount = 1

\* C20: the save of a like(P) that loaded the item with P in dislikedBy is
\* one write of the stored item: it either fails and changes nothing, or
\* leaves P in likedBy and out of dislikedBy; the store never holds the item
\* with P out of both lists, or in both, on the way.
C20_DislikedToLikedAtomic ==
    [][\A r \in Requests :
          (/\ FinishItemCall(r)
           /\ eproc[r].op = "like"
           /\ Includes(eproc[r].loaded.dislikedBy, eproc[r].profileId)
           /\ ~Includes(eproc[r].loaded.likedBy, eproc[r].profileId)) =>
            \/ eproc'[r].res = "VERSION_ERROR" /\ item' = item
            \/ /\ eproc'[r].res = "ok"
               /\ Includes(item'.likedBy, eproc[r].profileId)
               /\ ~Includes(item'.dislikedBy, eproc[r].profileId)]_vars

\* C20 witness: a dislike by P and then a like by P have both written a
\* list change (the like loaded what the dislike had written), and P is in
\* likedBy only.
C20_Witness ==
    /\ eproc["r1"].pc = "done" /\ eproc["r1"].op = "dislike" /\ eproc["r1"].res = "ok"
    /\ eproc["r2"].pc = "done" /\ eproc["r2"].op = "like" /\ eproc["r2"].res = "ok"
    /\ eproc["r1"].profileId = eproc["r2"].profileId
    /\ item.v = 2
    /\ Includes(item.likedBy, eproc["r2"].profileId)
    /\ ~Includes(item.dislikedBy, eproc["r2"].profileId)

\* C27 (as claimed): a createProfile with isDefault = true for an account
\* that already has profiles leaves the isDefault flag of each of them as
\* it was.
C27_CreateKeepsSiblings ==
    [][\A u \in Users, n \in Names :
          (CreateProfile(u, n, "true") /\ ProfilesOf(profiles, u) # {}) =>
            \A i \in ProfilesOf(profiles, u) :
                profiles'[i].isDefault = profiles[i].isDefault]_vars

\* C27 (amended): a createProfile with isDefault = true that succeeds for an
\* account that already has profiles leaves every one of them non-default
\* and the new profile default; the profiles of other accounts keep their
\* flags.
C27_CreateDemotesSiblings ==
    [][\A u \in Users, n \in Names :
          (/\ CreateProfile(u, n, "true")
           /\ ProfilesOf(profiles, u) # {}
           /\ last'.res = "ok") =>
            /\ \A i \in ProfileIds :
                  (profiles[i].exists /\ profiles[i].userId = u) => ~profiles'[i].isDefault
            /\ \A i \in ProfileIds :
                  (profiles[i].exists /\ profiles[i].userId # u) => profiles'[i] = profiles[i]
            /\ \E i \in ProfileIds :
                  /\ ~profiles[i].exists /\ profiles'[i].exists
                  /\ profiles'[i].userId = u /\ profiles'[i].isDefault]_vars

\* C27 witness: a create that asked for isDefault = true succeeded as the
\* second profile of its account; the new profile is the only default.
C27_Witness ==
    /\ last.op = "create" /\ last.res = "ok" /\ last.asked = "true"
    /\ \E i, j \in ProfileIds :
          /\ i < j
          /\ profiles[i].exists /\ profiles[i].userId = last.userId
          /\ profiles[j].exists /\ profiles[j].userId = last.userId
          /\ ~profiles[i].isDefault /\ profiles[j].isDefault

\* C28: getDefaultProfile(u) returns a profile of u whose isDefault is true
\* when u has one, and null (404) exactly when u has none, profiles or not;
\* it changes no profile.
C28_GetDefault ==
    [][\A u \in Users, f \in ProfileIds \cup {NoId} :
          GetDefaultProfile(u, f) =>
            /\ profiles' = profiles
            /\ IF \E i \in ProfileIds :
                     profiles[i].exists /\ profiles[i].userId = u /\ profiles[i].isDefault
               THEN /\ last'.res = "ok" /\ f # NoId
                    /\ profiles[f].exists /\ profiles[f].userId = u /\ profiles[f].isDefault
               ELSE last'.res = "NOT_FOUND" /\ f = NoId]_vars

\* C28 witness: getDefaultProfile returned null for an account that has
\* profiles, none of them default.
C28_Witness ==
    /\ last.op = "getDefault" /\ last.res = "NOT_FOUND"
    /\ \E i \in ProfileIds : profiles[i].exists /\ profiles[i].userId = last.userId

\* C29: getProfilesByUserId(u) lists exactly the profiles of u, each once,
\* default ones before the others and, among profiles with the same flag,
\* in the order they were created.
C29_ListOrder ==
    \A u \in Users :
        LET r == getProfilesByUserId(profiles, u)
        IN  /\ {r[k] : k \in 1..Len(r)} =
                    {i \in ProfileIds : profiles[i].exists /\ profiles[i].userId = u}
            /\ \A k, l \in 1..Len(r) : k # l => r[k] # r[l]
            /\ \A k, l \in 1..Len(r) :
                  k < l =>
                    /\ profiles[r[l]].isDefault => profiles[r[k]].isDefault
                    /\ profiles[r[k]].isDefault = profiles[r[l]].isDefault => r[k] < r[l]

\* C29 witness: the list was asked for an account whose default profile
\* was created after a non-default one, so the sort moves it to the front.
C29_Witness ==
    /\ last.op = "list"
    /\ \E i, j \in ProfileIds :
          /\ i < j
          /\ profiles[i].exists /\ profiles[i].userId = last.userId
          /\ profiles[j].exists /\ profiles[j].userId = last.userId
          /\ ~profiles[i].isDefault /\ profiles[j].isDefault
          /\ getProfilesByUserId(profiles, last.userId)[1] = j

\* C30: no store operation of a setDefaultProfile call, or of an
\* updateProfileById call that sets isDefault = true, takes the account from
\* a state with a default profile to a state without one (which a
\* concurrent getDefaultProfile would answer with null).
C30_DefaultNeverMissing ==
    [][\A r \in Requests :
          (\/ SetDefaultUnset(r) \/ SetDefaultSet(r)
           \/ (UpdateHookDefault(r) /\ pproc[r].flag)
           \/ (UpdateWrite(r) /\ pproc[r].flag)) =>
            (DefaultsOf(profiles, pproc[r].userId) # {}
                => DefaultsOf(profiles', pproc[r].userId) # {})]_vars

\* C31: however the steps of concurrent deleteProfile requests to the
\* controller on one account interleave, an account that had a profile
\* never ends with none: once a request has deleted a profile, the account
\* still has one.
C31_NeverZeroProfiles ==
    \A r \in Requests :
        (pproc[r].pc = "done" /\ pproc[r].op = "deleteProfile" /\ pproc[r].res = "ok")
            => ProfilesOf(profiles, pproc[r].userId) # {}

\* C32: once concurrent deleteProfileById and setDefaultProfile calls on one
\* account have all completed, however their steps interleaved, an account
\* that still has a profile has exactly one profile with isDefault = true.
C32_DefaultAfterDeleteRace ==
    (\A r \in Requests : pproc[r].pc = "done")
        => \A u \in RaceUsers :
              ProfilesOf(profiles, u) # {} => Cardinality(DefaultsOf(profiles, u)) = 1

\* C33: no sequence of createProfile, updateProfileById, setDefaultProfile
\* and deleteProfileById calls run one at a time reaches a state in which an
\* account has two or more profiles with isDefault = true.
C33_AtMostOneDefault ==
    \A u \in Users : Cardinality(DefaultsOf(profiles, u)) <= 1

\* C33 witness: an updateProfileById that made a non-default profile the
\* default of an account with two profiles; the sibling is not default.
C33_Witness ==
    /\ last.op = "update" /\ last.res = "ok" /\ ~last.wasDefault
    /\ Cardinality(ProfilesOf(profiles, last.userId)) = 2
    /\ DefaultsOf(profiles, last.userId) = {last.profileId}

\* C35: after createUser has persisted the account, the account has no, one
\* or two profiles; when it has any, the public profile named after the
\* account exists and is the only default of the account (so the anonymous
\* profile is never the only profile).
C35_BootstrapOutcomes ==
    [][\A u \in Users :
          (last'.op = "createUser" /\ ~users[u].exists /\ users'[u].exists) =>
            LET created == ProfilesOf(profiles', u)
            IN  /\ Cardinality(created) <= 2
                /\ created # {} =>
                      \E i \in created :
                         /\ profiles'[i].profileName = users'[u].name
                         /\ profiles'[i].profileType = "public"
                         /\ DefaultsOf(profiles', u) = {i}]_vars

\* C35 witness: createUser returned and the account has one profile (the
\* creation of the anonymous profile failed).
C35_Witness ==
    /\ last.op = "createUser" /\ last.res = "ok"
    /\ last.userId \in Users
    /\ Cardinality(ProfilesOf(profiles, last.userId)) = 1
    /\ \A i \in ProfilesOf(profiles, last.userId) : profiles[i].profileType = "public"

\* C36: updateProfileById whose patch sets profileName to the name of
\* another profile of the same account fails with the conflict error and
\* changes no profile, whatever the patch says about isDefault; a patch that
\* repeats the profile's own name is not a conflict.
C36_RenameConflict ==
    [][\A i \in ProfileIds, n \in Names, f \in PatchFlags :
          (profiles[i].exists /\ UpdateProfileById(i, n, f)) =>
            IF \E j \in ProfilesOf(profiles, profiles[i].userId) \ {i} :
                    profiles[j].profileName = n
            THEN last'.res = "BAD_REQUEST" /\ profiles' = profiles
            ELSE (n = profiles[i].profileName) =>
                    (last'.res = "ok" /\ profiles'[i].profileName = n)]_vars

\* C36 witness: an updateProfileById was refused with the conflict error
\* while the target's sibling was the default of the account.
C36_Witness ==
    /\ last.op = "update" /\ last.res = "BAD_REQUEST"
    /\ \E j \in ProfilesOf(profiles, last.userId) \ {last.profileId} :
          profiles[j].isDefault

\* C40: a profile operation for account A (createProfile, updateProfileById
\* or deleteProfileById on a profile of A, setDefaultProfile(A, _), the
\* bootstrap of createUser for A) changes no profile of another account B,
\* and gives B no profile.
AccountOps == {"create", "update", "setDefault", "delete", "createUser"}

C40_OtherAccountsUntouched ==
    [][\A b \in Users :
          (last'.op \in AccountOps /\ last'.userId # b) =>
            \A i \in ProfileIds :
                (profiles[i].userId = b \/ profiles'[i].userId = b)
                    => profiles'[i] = profiles[i]]_vars

\* C40 witness: a createProfile with isDefault = true succeeded for one
\* account while another account has a default profile.
C40_Witness ==
    /\ last.op = "create" /\ last.res = "ok" /\ last.asked = "true"
    /\ \E i \in ProfileIds :
          /\ profiles[i].exists /\ profiles[i].userId # last.userId
          /\ profiles[i].isDefault

\* C34: when two createProfile calls with different names run concurrently
\* for an account that has no profile (in particular when both read the
\* empty profile list before either inserts), then once both have completed
\* exactly one of the two created profiles has isDefault = true.
C34_ConcurrentFirstCreate ==
    (/\ BothReturned("create")
     /\ pproc["r1"].userId = pproc["r2"].userId
     /\ nextId = 3
     /\ ProfilesOf(profiles, pproc["r1"].userId) = {pproc["r1"].id, pproc["r2"].id})
        => Cardinality(DefaultsOf(profiles, pproc["r1"].userId)) = 1

\* C37: an engagement operation invoked by profile P never changes whether
\* another profile Q is in likedBy, dislikedBy, savedBy or sharedBy of the
\* item, also when the calls of P and Q interleave: what a completed call of
\* Q recorded is not lost to P's save.
C37_OthersMembershipKept ==
    [][\A r \in Requests :
          (eproc[r].pc = "loaded" /\ eproc'[r].pc = "done") =>
            \A q \in Reactors \ {eproc[r].profileId}, f \in ListFields :
                Includes(item'[f], q) <=> Includes(item[f], q)]_vars

\* C37 witness: Q's like was saved between the load and the save of P's
\* unlike; P's save, which would have written likedBy as P loaded it, was
\* refused and Q is in likedBy.
C37_Witness ==
    /\ BothCompleted
    /\ eproc["r1"].op = "unlike" /\ eproc["r1"].res = "VERSION_ERROR"
    /\ eproc["r2"].op = "like" /\ eproc["r2"].res = "ok"
    /\ eproc["r1"].profileId # eproc["r2"].profileId
    /\ Includes(item.likedBy, eproc["r2"].profileId)

\* C38: likeCount, unlikeCount, saveCount and shareCount are never negative,
\* also after concurrent engagement calls followed by unlike, removeDislike
\* and unsave calls.
C38_CountersNonNegative == \A f \in CountFields : item[f] >= 0

\* C39: no profile appears more than once in likedBy, dislikedBy, savedBy or
\* sharedBy, also when two calls by the same profile both load the item
\* before either saves.
C39_NoDuplicates ==
    \A f \in ListFields : \A i, j \in 1..Len(item[f]) : item[f][i] = item[f][j] => i = j

\* C25: a createPost whose category counter update fails still returns
\* the created item, and the item is persisted.
C25_CreateSurvivesCounterFailure ==
    [][CreatePost(TRUE) => (elast'.res = "ok" /\ item'.exists)]_vars

\* C26: a step that changes a membership list or a counter of an existing
\* item is a step of one of the seven engagement calls.
C26_OnlyEngagementWrites ==
    [][(item.exists /\ item'.exists /\ ~SameEngagement(item', item)) =>
          \E p \in Reactors :
              \/ Like(p) \/ Unlike(p) \/ Dislike(p) \/ RemoveDislike(p)
              \/ SaveItem(p) \/ Unsave(p) \/ Share(p)]_vars

====
